---- MODULE Spec2Model ----
(***************************************************************************)
(* Model of utils/measurements (decimalToFraction, formatFraction) of the  *)
(* Precision Tape Measure Visualizer.                                      *)
(*                                                                         *)
(* Numbers: a JavaScript number r is represented by the integer r * Unit,  *)
(* so that 1e-5, 1e-4, every n/d with d a power of two up to 256 and the   *)
(* thirds are exact.  Arithmetic on that grid is exact; the rounding of    *)
(* IEEE doubles (of the order of 1e-16) is not modelled.  Numerators,      *)
(* denominators and whole parts are plain integers.                        *)
(***************************************************************************)
EXTENDS Integers, Sequences, FiniteSets, TLC

(* ---------------------------- bounds ---------------------------------- *)

\* maxDenominator ranges over 2^0 .. 2^MaxExp
MaxExp == 6

\* the whole part of the inputs ranges over 0 .. MaxWhole
MaxWhole == 1

(* ------------------------- number grid -------------------------------- *)

\* the grid: one inch is Unit grid points (2^8 * 3 * 5^5)
Unit == 256 * 3 * 3125

RECURSIVE Pow2(_)
Pow2(k) == IF k = 0 THEN 1 ELSE 2 * Pow2(k - 1)

MaxDen == Pow2(MaxExp)

\* the values of maxDenominator the inputs are drawn from
Denominators == { Pow2(k) : k \in 0..MaxExp }

\* half of the finest step: every candidate n/d and every rounding midpoint
\* of every candidate denominator is a multiple of it
GridStep == Unit \div (2 * MaxDen)

\* 0.0001 and 0.00001 of the source, on the grid
WholeEps == Unit \div 10000
Margin == Unit \div 100000

\* distances from a candidate or midpoint at which the two thresholds flip
Offsets ==
    LET pos == { 0, 1, Margin - 1, Margin, Margin + 1, 2 * Margin,
                 WholeEps - 1, WholeEps, WholeEps + 1, WholeEps + Margin,
                 (3 * WholeEps) \div 2 }
    IN  pos \cup { 0 - o : o \in pos }

\* fractional parts of the inputs: around every grid point, and the thirds
Fractions ==
    { f \in { g * GridStep + o : g \in 0..(2 * MaxDen), o \in Offsets }
          \cup { Unit \div 3, (2 * Unit) \div 3 } : f >= 0 /\ f < Unit }

\* whole parts of the inputs: 0..MaxWhole and those of the documented scenarios
Wholes == (0..MaxWhole) \cup { 4, 5, 12 }

Values == { w * Unit + f : w \in Wholes, f \in Fractions }

(* ------------------------ pure helpers -------------------------------- *)

Abs(x) == IF x < 0 THEN 0 - x ELSE x

\* Math.floor(value)
Floor(v) == v \div Unit

\* value - whole
DecimalPart(v) == v - Floor(v) * Unit

\* Math.round(decimalPart * d): nearest integer, halves rounded up
Round(dp, d) == (2 * dp * d + Unit) \div (2 * Unit)

\* variant: the Math.abs dropped
AbsErrorSigned(dp, n, d) == dp - (n * Unit) \div d

\* Math.abs(decimalPart - n / d)
AbsError(dp, n, d) == Abs(dp - (n * Unit) \div d)

\* variant: the selection margin 0.00001 used as the whole-number threshold
IsWholeMargin(dp) == Abs(dp) < Margin

\* Math.abs(decimalPart) < 0.0001
IsWhole(dp) == Abs(dp) < WholeEps

\* variant: the margin dropped
BetterNoMargin(error, best) == error < best

\* variant: a candidate that is as good replaces the best
BetterOrEqual(error, best) == error <= best

\* variant: the operands of the comparison exchanged
BetterSwapped(error, best) == best < error - Margin

\* error < minError - 0.00001
Better(error, best) == error < best - Margin

\* variant: the loop stops one candidate early
InLoopStrict(dd, maxD) == dd < maxD

\* variant: the loop runs one candidate too far
InLoopBeyond(dd, maxD) == dd <= 2 * maxD

\* the loop condition d <= maxDenominator
InLoop(dd, maxD) == dd <= maxD

\* variant: the reduction dropped (the divisor is always 1)
gcdOne(a, b) == 1

\* const gcd = (a, b) => b === 0 ? a : gcd(b, a % b)
RECURSIVE gcd(_, _)
gcd(a, b) == IF b = 0 THEN a ELSE gcd(b, a % b)

(* ------------------------------ state --------------------------------- *)

VARIABLES
    pc,               \* position: "call", "loop", "ret", "done"
    value,            \* argument value (grid)
    maxDenominator,   \* argument maxDenominator
    whole,            \* const whole
    decimalPart,      \* const decimalPart (grid)
    bestNumerator,    \* let bestNumerator
    bestDenominator,  \* let bestDenominator
    minError,         \* let minError (grid)
    d,                \* loop variable d
    result,           \* the FractionResult returned
    text,             \* formatFraction(result)
    candidates,       \* history: the values of d the loop body has run with
    trail,            \* history: per iteration, d, n, error, the minError it
                      \* was compared with, and whether it replaced the best
    inputValue,       \* App: the text of the input field (see InputTexts)
    precision,        \* App: 16, 32 or 64
    history,          \* App: the HistoryItem list, newest first
    now,              \* App: Date.now(), a clock that ticks at every save
    edits,            \* the input and precision events so far (bounded)
    saves,            \* the saves so far beyond those of Init (bounded)
    lastOp            \* history: the handler that ran last

\* the locals of decimalToFraction and formatFraction
fvars == << pc, value, maxDenominator, whole, decimalPart, bestNumerator,
            bestDenominator, minError, d, result, text, candidates, trail >>

\* the state of the App component
avars == << inputValue, precision, history, now, edits, saves, lastOp >>

vars == << fvars, avars >>

\* a number typed into the input field, or the text of another kind:
\* "empty" (blank), "illegal" (a character outside 0-9 . + - * / ( ) and
\* space), "throws" (evaluation throws), "object" (evaluates to something
\* that is not a number), "nan", "inf" (evaluates to NaN, to +-Infinity)
Num(v) == [ kind |-> "num", v |-> v ]
Text(k) == [ kind |-> k, v |-> 0 ]

\* useState("5.375"), useState(16), useState([])
InitialInput == Num(5 * Unit + (3 * Unit) \div 8)
InitialPrecision == 16

\* the App state while decimalToFraction is looked at on its own
AppIdle ==
    /\ inputValue = InitialInput
    /\ precision = InitialPrecision
    /\ history = << >>
    /\ now = 0
    /\ edits = 0
    /\ saves = 0
    /\ lastOp = "none"

\* no FractionResult yet
NoResult == [ whole |-> 0, numerator |-> 0, denominator |-> 0,
              decimal |-> 0, error |-> 0 ]

\* variant: the roll-over of numerator = denominator dropped
formatFractionNoRollOver(r) ==
    IF r.numerator = 0
    THEN ToString(r.whole) \o "\""
    ELSE IF r.whole = 0
    THEN ToString(r.numerator) \o "/" \o ToString(r.denominator) \o "\""
    ELSE ToString(r.whole) \o " " \o ToString(r.numerator) \o "/"
             \o ToString(r.denominator) \o "\""

\* variant: the whole = 0 case dropped
formatFractionAlwaysWhole(r) ==
    IF r.numerator = 0 \/ r.numerator = r.denominator
    THEN ToString(IF r.numerator = r.denominator THEN r.whole + 1 ELSE r.whole)
             \o "\""
    ELSE ToString(r.whole) \o " " \o ToString(r.numerator) \o "/"
             \o ToString(r.denominator) \o "\""

\* formatFraction
formatFraction(r) ==
    IF r.numerator = 0 \/ r.numerator = r.denominator
    THEN ToString(IF r.numerator = r.denominator THEN r.whole + 1 ELSE r.whole)
             \o "\""
    ELSE IF r.whole = 0
    THEN ToString(r.numerator) \o "/" \o ToString(r.denominator) \o "\""
    ELSE ToString(r.whole) \o " " \o ToString(r.numerator) \o "/"
             \o ToString(r.denominator) \o "\""

Init ==
    /\ pc = "call"
    /\ value \in Values
    /\ maxDenominator \in Denominators
    /\ whole = 0
    /\ decimalPart = 0
    /\ bestNumerator = 0
    /\ bestDenominator = 0
    /\ minError = 0
    /\ d = 0
    /\ result = NoResult
    /\ text = ""
    /\ candidates = << >>
    /\ trail = << >>
    /\ AppIdle

\* lines 13-19: whole, decimalPart, and the return for whole numbers
FastPath ==
    /\ pc = "call"
    /\ IsWhole(DecimalPart(value))
    /\ whole' = Floor(value)
    /\ decimalPart' = DecimalPart(value)
    /\ result' = [ whole |-> Floor(value), numerator |-> 0, denominator |-> 1,
                   decimal |-> value, error |-> 0 ]
    /\ pc' = "ret"
    /\ UNCHANGED << value, maxDenominator, bestNumerator, bestDenominator,
                    minError, d, text, candidates, trail >>
    /\ UNCHANGED avars

\* variant: the loop starts at d = 1
SeedFromOne ==
    /\ pc = "call"
    /\ ~ IsWhole(DecimalPart(value))
    /\ whole' = Floor(value)
    /\ decimalPart' = DecimalPart(value)
    /\ bestNumerator' = 1
    /\ bestDenominator' = 1
    /\ minError' = AbsError(DecimalPart(value), 1, 1)
    /\ d' = 1
    /\ pc' = "loop"
    /\ UNCHANGED << value, maxDenominator, result, text, candidates, trail >>
    /\ UNCHANGED avars

\* lines 13-26: whole, decimalPart, the seed 1/1 and the loop's d = 2
Seed ==
    /\ pc = "call"
    /\ ~ IsWhole(DecimalPart(value))
    /\ whole' = Floor(value)
    /\ decimalPart' = DecimalPart(value)
    /\ bestNumerator' = 1
    /\ bestDenominator' = 1
    /\ minError' = AbsError(DecimalPart(value), 1, 1)
    /\ d' = 2
    /\ pc' = "loop"
    /\ UNCHANGED << value, maxDenominator, result, text, candidates, trail >>
    /\ UNCHANGED avars

\* lines 26-34: one iteration whose candidate replaces the running best
LoopAccept ==
    /\ pc = "loop"
    /\ InLoop(d, maxDenominator)
    /\ LET n == Round(decimalPart, d)
           error == AbsError(decimalPart, n, d)
       IN  /\ Better(error, minError)
           /\ bestNumerator' = n
           /\ bestDenominator' = d
           /\ minError' = error
           /\ trail' = Append(trail, [ d |-> d, n |-> n, error |-> error,
                                       best |-> minError, accepted |-> TRUE ])
    /\ d' = d * 2
    /\ candidates' = Append(candidates, d)
    /\ UNCHANGED << pc, value, maxDenominator, whole, decimalPart, result, text >>
    /\ UNCHANGED avars

\* lines 26-31, 35-42: one iteration that keeps the running best
LoopKeep ==
    /\ pc = "loop"
    /\ InLoop(d, maxDenominator)
    /\ LET n == Round(decimalPart, d)
           error == AbsError(decimalPart, n, d)
       IN  /\ ~ Better(error, minError)
           /\ trail' = Append(trail, [ d |-> d, n |-> n, error |-> error,
                                       best |-> minError, accepted |-> FALSE ])
    /\ d' = d * 2
    /\ candidates' = Append(candidates, d)
    /\ UNCHANGED << pc, value, maxDenominator, whole, decimalPart,
                    bestNumerator, bestDenominator, minError, result, text >>
    /\ UNCHANGED avars

\* lines 44-54: loop exit, gcd reduction and the return
Reduce ==
    /\ pc = "loop"
    /\ ~ InLoop(d, maxDenominator)
    /\ LET commonDivisor == gcd(bestNumerator, bestDenominator)
       IN  result' = [ whole |-> whole,
                       numerator |-> bestNumerator \div commonDivisor,
                       denominator |-> bestDenominator \div commonDivisor,
                       decimal |-> value,
                       error |-> minError ]
    /\ pc' = "ret"
    /\ UNCHANGED << value, maxDenominator, whole, decimalPart, bestNumerator,
                    bestDenominator, minError, d, text, candidates, trail >>
    /\ UNCHANGED avars

\* lines 57-67: the caller formats the result
Format ==
    /\ pc = "ret"
    /\ text' = formatFraction(result)
    /\ pc' = "done"
    /\ UNCHANGED << value, maxDenominator, whole, decimalPart, bestNumerator,
                    bestDenominator, minError, d, result, candidates, trail >>
    /\ UNCHANGED avars

Next == FastPath \/ Seed \/ LoopAccept \/ LoopKeep \/ Reduce \/ Format

Spec == Init /\ [][Next]_vars

(* ------------- formatFraction on every FractionResult ------------------ *)

\* the FractionResult values of the data model: a power-of-two denominator
\* and 0 <= numerator <= denominator (reduced or not)
FractionResults ==
    { r \in [ whole : Wholes, numerator : 0..MaxDen, denominator : Denominators,
                decimal : {0}, error : {0} ] : r.numerator <= r.denominator }

InitFormat ==
    /\ pc = "ret"
    /\ result \in FractionResults
    /\ value = 0
    /\ maxDenominator = MaxDen
    /\ whole = 0
    /\ decimalPart = 0
    /\ bestNumerator = 0
    /\ bestDenominator = 0
    /\ minError = 0
    /\ d = 0
    /\ text = ""
    /\ candidates = << >>
    /\ trail = << >>
    /\ AppIdle

SpecFormat == InitFormat /\ [][Format]_vars

(* --------------------------- the App ---------------------------------- *)

\* the input and precision events of a run (typing, toggling, nudging, loading)
MaxEdits == 3

\* the saves of a run beyond those of its initial state
MaxSaves == 2

\* .slice(0, 10)
HistoryCap == 10

\* type Precision = 16 | 32 | 64, the buttons of the precision toggle
Precisions == { 16, 32, 64 }

\* the search of decimalToFraction as a function: the best numerator,
\* denominator and error after the candidates dd, 2 * dd, ...
RECURSIVE Search(_, _, _, _, _, _)
Search(dp, maxD, dd, bn, bd, me) ==
    IF ~ InLoop(dd, maxD)
    THEN << bn, bd, me >>
    ELSE LET n == Round(dp, dd)
             error == AbsError(dp, n, dd)
         IN  IF Better(error, me)
             THEN Search(dp, maxD, dd * 2, n, dd, error)
             ELSE Search(dp, maxD, dd * 2, bn, bd, me)

\* decimalToFraction(value, maxDenominator) as a function
decimalToFraction(v, maxD) ==
    IF IsWhole(DecimalPart(v))
    THEN [ whole |-> Floor(v), numerator |-> 0, denominator |-> 1,
           decimal |-> v, error |-> 0 ]
    ELSE LET best == Search(DecimalPart(v), maxD, 2, 1, 1,
                            AbsError(DecimalPart(v), 1, 1))
             commonDivisor == gcd(best[1], best[2])
         IN  [ whole |-> Floor(v),
               numerator |-> best[1] \div commonDivisor,
               denominator |-> best[2] \div commonDivisor,
               decimal |-> v,
               error |-> best[3] ]

\* a JavaScript number that is NaN, or the finite number v
NaN == [ nan |-> TRUE, v |-> 0 ]
Finite(v) == [ nan |-> FALSE, v |-> v ]

\* const parsedValue = useMemo(...)
parsedValue(inp) ==
    IF inp.kind = "empty" THEN NaN
    ELSE IF inp.kind = "illegal" THEN NaN
    ELSE IF inp.kind = "throws" THEN NaN
    ELSE IF inp.kind = "num" THEN Finite(inp.v)
    ELSE NaN

\* variant: the test parsedValue >= 0 dropped
isValidAnySign(inp) == ~ parsedValue(inp).nan

\* const isValid = !isNaN(parsedValue) && parsedValue >= 0
isValid(inp) == ~ parsedValue(inp).nan /\ parsedValue(inp).v >= 0

\* const fractionData = useMemo(...), NoResult for null
fractionData(inp, p) ==
    IF ~ isValid(inp) THEN NoResult
    ELSE decimalToFraction(parsedValue(inp).v, p)

\* const fractionString
fractionString(inp, p) ==
    IF fractionData(inp, p) # NoResult
    THEN formatFraction(fractionData(inp, p))
    ELSE "---"

\* 0.0001 on the grid: the last digit of toFixed(4)
Digit4 == Unit \div 10000

\* x.toFixed(4) read back as a number, x >= 0: the nearest multiple of
\* 0.0001.  Half-way, the larger one if x is that half-way point exactly as
\* a double (an odd multiple of 1/32); otherwise the double lies on either
\* side of it, and both outcomes are kept
ToFixed4(x) ==
    LET q == x \div Digit4
        r == x % Digit4
    IN  IF 2 * r < Digit4 THEN { q * Digit4 }
        ELSE IF 2 * r > Digit4 THEN { (q + 1) * Digit4 }
        ELSE IF x % (Unit \div 32) = 0 THEN { (q + 1) * Digit4 }
        ELSE { q * Digit4, (q + 1) * Digit4 }

Max(a, b) == IF a >= b THEN a ELSE b

\* ArrowUp: (parseFloat(parsedValue.toFixed(4)) + step).toFixed(4)
NudgedUp(v, p) ==
    UNION { ToFixed4(current + Unit \div p) : current \in ToFixed4(v) }

\* ArrowDown: Math.max(0, parseFloat(parsedValue.toFixed(4)) - step).toFixed(4)
NudgedDown(v, p) ==
    UNION { ToFixed4(Max(0, current - Unit \div p)) : current \in ToFixed4(v) }

\* val.toString() as the text of the input field, val >= 0: exponent
\* notation (an illegal "e") below 1e-6, the decimal digits otherwise
NumberToInput(v) ==
    IF v # 0 /\ v <= Unit \div 1000000 THEN Text("illegal") ELSE Num(v)

\* variant: the list is not cut
KeepAll(items) == items

\* .slice(0, 10)
KeepLast(items) ==
    SubSeq(items, 1, IF Len(items) < HistoryCap THEN Len(items) ELSE HistoryCap)

\* handleSaveToHistory: the next history
SavedHistory(inp, p, hist, clock) ==
    IF isValid(inp) /\ fractionData(inp, p) # NoResult
    THEN KeepLast(<< [ id |-> clock + 1,
                       decimal |-> parsedValue(inp).v,
                       fraction |-> formatFraction(fractionData(inp, p)) ] >>
                  \o hist)
    ELSE hist

\* what the user types: a text of each kind, and some numbers (-1, 0,
\* 0.0000004, 1/3, 5.375)
TypedValues == { 0 - Unit, 0, 1, Unit \div 3, 5 * Unit + (3 * Unit) \div 8 }

InputTexts ==
    { Text(k) : k \in { "empty", "illegal", "throws", "object", "nan", "inf" } }
        \cup { Num(v) : v \in TypedValues }

\* decimalToFraction's locals while the App is looked at
FuncIdle ==
    /\ pc = "app"
    /\ value = 0
    /\ maxDenominator = InitialPrecision
    /\ whole = 0
    /\ decimalPart = 0
    /\ bestNumerator = 0
    /\ bestDenominator = 0
    /\ minError = 0
    /\ d = 0
    /\ result = NoResult
    /\ text = ""
    /\ candidates = << >>
    /\ trail = << >>

\* the history after k saves of the initial measurement
InitialSaves(k) ==
    [ i \in 1..k |->
        [ id |-> k + 1 - i,
          decimal |-> InitialInput.v,
          fraction |-> fractionString(InitialInput, InitialPrecision) ] ]

\* the App as mounted, with no save yet or with HistoryCap - 1 saves of the
\* initial measurement already made
InitApp ==
    /\ FuncIdle
    /\ inputValue = InitialInput
    /\ precision = InitialPrecision
    /\ now \in { 0, HistoryCap - 1 }
    /\ history = InitialSaves(now)
    /\ edits = 0
    /\ saves = 0
    /\ lastOp = "none"

\* onChange: setInputValue(e.target.value)
TypeInput ==
    /\ edits < MaxEdits
    /\ \E inp \in InputTexts : inputValue' = inp
    /\ edits' = edits + 1
    /\ lastOp' = "type"
    /\ UNCHANGED << precision, history, now, saves >>
    /\ UNCHANGED fvars

\* the precision toggle: setPrecision(p)
SetPrecision ==
    /\ edits < MaxEdits
    /\ \E p \in Precisions : precision' = p
    /\ edits' = edits + 1
    /\ lastOp' = "precision"
    /\ UNCHANGED << inputValue, history, now, saves >>
    /\ UNCHANGED fvars

\* handleKeyDown, Enter
KeyEnter ==
    /\ isValid(inputValue) => saves < MaxSaves
    /\ IF isValid(inputValue)
       THEN /\ history' = SavedHistory(inputValue, precision, history, now)
            /\ now' = now + 1
            /\ saves' = saves + 1
       ELSE UNCHANGED << history, now, saves >>
    /\ lastOp' = "enter"
    /\ UNCHANGED << inputValue, precision, edits >>
    /\ UNCHANGED fvars

\* the Save button (disabled while the input is invalid): handleSaveToHistory
ClickSave ==
    /\ isValid(inputValue)
    /\ saves < MaxSaves
    /\ history' = SavedHistory(inputValue, precision, history, now)
    /\ now' = now + 1
    /\ saves' = saves + 1
    /\ lastOp' = "save"
    /\ UNCHANGED << inputValue, precision, edits >>
    /\ UNCHANGED fvars

\* handleClearHistory
ClearHistory ==
    /\ history' = << >>
    /\ lastOp' = "clear"
    /\ UNCHANGED << inputValue, precision, now, edits, saves >>
    /\ UNCHANGED fvars

\* loadFromHistory(item.decimal)
LoadFromHistory ==
    /\ edits < MaxEdits
    /\ \E i \in 1..Len(history) :
           inputValue' = NumberToInput(history[i].decimal)
    /\ edits' = edits + 1
    /\ lastOp' = "load"
    /\ UNCHANGED << precision, history, now, saves >>
    /\ UNCHANGED fvars

\* handleKeyDown, ArrowUp
KeyArrowUp ==
    /\ edits < MaxEdits
    /\ IF isValid(inputValue)
       THEN \E y \in NudgedUp(parsedValue(inputValue).v, precision) :
                inputValue' = Num(y)
       ELSE UNCHANGED inputValue
    /\ edits' = edits + 1
    /\ lastOp' = "up"
    /\ UNCHANGED << precision, history, now, saves >>
    /\ UNCHANGED fvars

\* handleKeyDown, ArrowDown
KeyArrowDown ==
    /\ edits < MaxEdits
    /\ IF isValid(inputValue)
       THEN \E y \in NudgedDown(parsedValue(inputValue).v, precision) :
                inputValue' = Num(y)
       ELSE UNCHANGED inputValue
    /\ edits' = edits + 1
    /\ lastOp' = "down"
    /\ UNCHANGED << precision, history, now, saves >>
    /\ UNCHANGED fvars

NextApp ==
    \/ TypeInput
    \/ SetPrecision
    \/ KeyEnter
    \/ ClickSave
    \/ ClearHistory
    \/ LoadFromHistory
    \/ KeyArrowUp
    \/ KeyArrowDown

SpecApp == InitApp /\ [][NextApp]_vars

(* ------------------------------ claims -------------------------------- *)

\* a result has been returned
Returned == pc \in { "ret", "done" }

\* the result came out of the search (not the whole-number return)
Searched == Returned /\ bestDenominator > 0

\* |value - (whole + numerator/denominator)| of the result, on the grid
RoundTrip ==
    Abs(value - (result.whole * Unit
                   + (result.numerator * Unit) \div result.denominator))

\* a and b have no common divisor but 1
Coprime(a, b) == \A k \in 2..b : ~ (a % k = 0 /\ b % k = 0)

IsPow2(n) == \E k \in 0..(MaxExp + 2) : n = Pow2(k)

\* C1: every result is within 1/(2 * maxDenominator) + eps of the input,
\* for every maxDenominator 1, 2, 4, ... and eps = 1e-4
C1_RoundTripBound ==
    Returned => 2 * maxDenominator * RoundTrip
                    <= Unit + 2 * maxDenominator * WholeEps

\* C1, from maxDenominator = 2 on: the bound, with eps = 1e-5
C1_RoundTripBoundFromTwo ==
    (Returned /\ maxDenominator >= 2)
        => 2 * maxDenominator * RoundTrip
               <= Unit + 2 * maxDenominator * Margin

\* C2: every result is in lowest terms (or is 0/1), with
\* 0 <= numerator <= denominator
C2_ReducedForm ==
    Returned =>
        /\ \/ Coprime(result.numerator, result.denominator)
           \/ (result.numerator = 0 /\ result.denominator = 1)
        /\ result.numerator = 0 => result.denominator = 1
        /\ 0 <= result.numerator
        /\ result.numerator <= result.denominator

\* C2 witness: the search ended on 0/2 and the result is 0/1
C2_Witness ==
    /\ Searched
    /\ bestNumerator = 0
    /\ bestDenominator = 2
    /\ result.numerator = 0
    /\ result.denominator = 1

\* C3: with maxDenominator 16, 32 or 64, a fractional part that is exactly
\* a/b, a odd, b = 2, 4, ... <= maxDenominator, is returned as a/b, error 0
C3_ExactTapeFraction ==
    (Returned /\ maxDenominator \in { 16, 32, 64 }) =>
        \A b \in { x \in Denominators : x >= 2 /\ x <= maxDenominator } :
            \A a \in { x \in 1..b : x % 2 = 1 } :
                (value - (value \div Unit) * Unit) * b = a * Unit =>
                    /\ result.whole = value \div Unit
                    /\ result.numerator = a
                    /\ result.denominator = b
                    /\ result.error = 0

\* C3 witness: 5.375 at maxDenominator 16 has been returned as 5 and 3/8
C3_Witness ==
    /\ Returned
    /\ maxDenominator = 16
    /\ value = 5 * Unit + (3 * Unit) \div 8
    /\ result.whole = 5
    /\ result.numerator = 3
    /\ result.denominator = 8
    /\ Len(candidates) = 4

\* C4 as stated: 0.25 is returned as 1/4 for every valid maxDenominator
\* (taken here from 2 on: 2, 4, 8, ...)
C4_QuarterEveryDenominator ==
    (Returned /\ value = Unit \div 4 /\ maxDenominator >= 2) =>
        (result.numerator = 1 /\ result.denominator = 4)

\* C4 amended: 0.25 is returned as 1/4 for every maxDenominator >= 4
C4_QuarterFromFour ==
    (Returned /\ value = Unit \div 4 /\ maxDenominator >= 4) =>
        (result.whole = 0 /\ result.numerator = 1 /\ result.denominator = 4)

\* C4 witness: 0.25 at the largest maxDenominator has been returned as 1/4
C4_Witness ==
    /\ Returned
    /\ value = Unit \div 4
    /\ maxDenominator = MaxDen
    /\ result.numerator = 1
    /\ result.denominator = 4

\* C5: a value whose fractional part is below 1e-4 is returned as
\* {floor(value), 0, 1, value, 0}, and the search has not run
C5_WholeFastPath ==
    (Returned /\ value - (value \div Unit) * Unit < WholeEps) =>
        /\ result = [ whole |-> value \div Unit, numerator |-> 0,
                      denominator |-> 1, decimal |-> value, error |-> 0 ]
        /\ candidates = << >>
        /\ bestDenominator = 0
        /\ d = 0

\* C5 witness: 5.00001 has been returned by the whole-number path
C5_Witness ==
    /\ Returned
    /\ value = 5 * Unit + Margin
    /\ result.whole = 5
    /\ result.numerator = 0
    /\ candidates = << >>

\* C6 as stated: a value within 1e-4 of an integer, from below or from above,
\* is returned as numerator 0, denominator 1, error 0 (taken here at the
\* maxDenominator values 16, 32 and 64)
C6_NearIntegerEitherSide ==
    LET f == value - (value \div Unit) * Unit
    IN  (Returned /\ maxDenominator \in { 16, 32, 64 }
                  /\ (f < WholeEps \/ f > Unit - WholeEps)) =>
            /\ result.numerator = 0
            /\ result.denominator = 1
            /\ result.error = 0

\* C6 amended: within 1e-4 above an integer the result is floor(value), 0/1,
\* error 0; within 1e-4 below an integer it is floor(value), 1/1, error
\* 1 - f > 0, from the untouched seed, and formatFraction renders
\* floor(value) + 1 and no fraction
C6_NearIntegerBySide ==
    LET f == value - (value \div Unit) * Unit
        w == value \div Unit
    IN  /\ (Returned /\ f < WholeEps) =>
                /\ result.whole = w
                /\ result.numerator = 0
                /\ result.denominator = 1
                /\ result.error = 0
        /\ (Returned /\ f > Unit - WholeEps) =>
                /\ result.whole = w
                /\ result.numerator = 1
                /\ result.denominator = 1
                /\ result.error = Unit - f
                /\ bestDenominator = 1
        /\ (pc = "done" /\ (f < WholeEps \/ f > Unit - WholeEps)) =>
                text = ToString(IF f < WholeEps THEN w ELSE w + 1) \o "\""

\* C6 witness: 4.99999 has been returned as 4 and 1/1 and rendered as 5"
C6_Witness ==
    /\ pc = "done"
    /\ value = 4 * Unit + (Unit - Margin)
    /\ maxDenominator = 16
    /\ result.whole = 4
    /\ result.numerator = 1
    /\ result.denominator = 1
    /\ text = "5\""

\* C7 as stated: the denominator is a power of two in 1..maxDenominator, and
\* it is 1 exactly when the numerator is 0 (taken here at the maxDenominator
\* values 16, 32 and 64)
C7_DenominatorOneIffZero ==
    (Returned /\ maxDenominator \in { 16, 32, 64 }) =>
        /\ IsPow2(result.denominator)
        /\ 1 <= result.denominator
        /\ result.denominator <= maxDenominator
        /\ (result.denominator = 1) <=> (result.numerator = 0)

\* C7 amended: the denominator is a power of two in 1..maxDenominator; a
\* numerator of 0 has denominator 1; and the denominator is 1 exactly when
\* the numerator is 0 or equals the denominator (the seed 1/1)
C7_DenominatorRange ==
    Returned =>
        /\ IsPow2(result.denominator)
        /\ 1 <= result.denominator
        /\ result.denominator <= maxDenominator
        /\ result.numerator = 0 => result.denominator = 1
        /\ (result.denominator = 1)
               <=> (result.numerator = 0 \/ result.numerator = result.denominator)

\* C7 witness: a search up to 64 has returned a result with denominator 64
C7_Witness ==
    /\ Searched
    /\ maxDenominator = 64
    /\ result.denominator = 64
    /\ result.numerator % 2 = 1

\* C8: the error of a result of the search is the signed residual
\* decimalPart - numerator/denominator, negative when the fraction is above
C8_SignedError ==
    Searched =>
        result.error
            = decimalPart - (result.numerator * Unit) \div result.denominator

\* C8, what the code returns: the absolute value of that residual
C8_AbsoluteError ==
    Searched =>
        /\ result.error
              = Abs(decimalPart - (result.numerator * Unit) \div result.denominator)
        /\ result.error >= 0

\* C9: formatFraction by precedence: numerator 0, then numerator =
\* denominator, then whole 0, then the general form; zero renders as 0"
C9_FormatPrecedence ==
    pc = "done" =>
        LET r == result
            inch == "\""
            frac == ToString(r.numerator) \o "/" \o ToString(r.denominator)
        IN  /\ r.numerator = 0 => text = ToString(r.whole) \o inch
            /\ (r.numerator # 0 /\ r.numerator = r.denominator)
                   => text = ToString(r.whole + 1) \o inch
            /\ (r.numerator # 0 /\ r.numerator # r.denominator /\ r.whole = 0)
                   => text = frac \o inch
            /\ (r.numerator # 0 /\ r.numerator # r.denominator /\ r.whole # 0)
                   => text = ToString(r.whole) \o " " \o frac \o inch
            /\ (r.numerator = 0 /\ r.whole = 0) => text = "0\""
            /\ (r.whole = 5 /\ r.numerator = 3 /\ r.denominator = 8)
                   => text = "5 3/8\""
            /\ (r.whole = 0 /\ r.numerator = 1 /\ r.denominator = 16)
                   => text = "1/16\""

\* C9 witness: a fraction with whole part 0 has been rendered bare
C9_Witness ==
    /\ pc = "done"
    /\ result.whole = 0
    /\ result.numerator = 3
    /\ result.denominator = 8
    /\ text = "3/8\""

\* C10 as stated: 1/3 at maxDenominator 64 runs the six candidates and is
\* returned as 0 and 21/64 with an error of about -0.00077 (within 1e-4)
C10_ThirdErrorNegative ==
    (Returned /\ value = Unit \div 3 /\ maxDenominator = 64) =>
        /\ candidates = << 2, 4, 8, 16, 32, 64 >>
        /\ result.whole = 0
        /\ result.numerator = 21
        /\ result.denominator = 64
        /\ result.error # 0
        /\ Abs(result.error + (77 * Unit) \div 100000) <= WholeEps

\* C10 amended: 1/3 at maxDenominator 64 runs the six candidates and is
\* returned as 0 and 21/64 with the error 1/3 - 21/64 = 1/192, about +0.00521
C10_ThirdError ==
    (Returned /\ value = Unit \div 3 /\ maxDenominator = 64) =>
        /\ candidates = << 2, 4, 8, 16, 32, 64 >>
        /\ result.whole = 0
        /\ result.numerator = 21
        /\ result.denominator = 64
        /\ result.error # 0
        /\ result.error = Unit \div 192
        /\ Abs(result.error - (521 * Unit) \div 100000) <= Margin

\* C10 witness: 1/3 at maxDenominator 64 has been returned as 21/64
C10_Witness ==
    /\ Returned
    /\ value = Unit \div 3
    /\ maxDenominator = 64
    /\ result.numerator = 21
    /\ result.denominator = 64
    /\ Len(candidates) = 6

\* the k with 2^k = n, for n a power of two
Log2(n) == CHOOSE k \in 0..(MaxExp + 2) : Pow2(k) = n

\* C11: the search runs the candidates 2, 4, ..., maxDenominator in that
\* order and no other, log2(maxDenominator) iterations in all (none on the
\* whole-number return), and every step before the end, the gcd reduction
\* included, completes
C11_BoundedSearch ==
    /\ pc = "loop" =>
           /\ \A i \in 1..Len(candidates) : candidates[i] = Pow2(i)
           /\ d = Pow2(Len(candidates) + 1)
           /\ Len(candidates) <= Log2(maxDenominator)
    /\ Searched =>
           /\ candidates = [ i \in 1..Log2(maxDenominator) |-> Pow2(i) ]
           /\ Len(trail) = Log2(maxDenominator)
           /\ \A i \in 1..Len(candidates) : candidates[i] # 1
    /\ (Returned /\ ~ Searched) => candidates = << >>
    /\ pc # "done" => ENABLED Next

\* C11 witness: a search with maxDenominator 16 has run 2, 4, 8, 16
C11_Witness ==
    /\ Searched
    /\ maxDenominator = 16
    /\ candidates = << 2, 4, 8, 16 >>

\* the fractional part and the floor of the input, from value alone
FracOf(v) == v - (v \div Unit) * Unit
WholeOf(v) == v \div Unit

\* C15: a fractional part f >= 1e-4 with f >= 1 - 1/(2 * maxDenominator)
\* (it rounds up to maxDenominator/maxDenominator): no candidate replaces the
\* seed, the result is floor(value) and 1/1, and it is rendered as
\* floor(value) + 1 with no fraction
C15_RollOver ==
    (/\ FracOf(value) >= WholeEps
     /\ 2 * maxDenominator * FracOf(value) >= (2 * maxDenominator - 1) * Unit)
    =>
        /\ pc = "loop" => (bestNumerator = 1 /\ bestDenominator = 1)
        /\ pc # "call" => \A i \in 1..Len(trail) : ~ trail[i].accepted
        /\ Returned =>
               /\ candidates # << >> \/ maxDenominator = 1
               /\ bestNumerator = 1
               /\ bestDenominator = 1
               /\ result.whole = WholeOf(value)
               /\ result.numerator = 1
               /\ result.denominator = 1
        /\ pc = "done" => text = ToString(WholeOf(value) + 1) \o "\""

\* C15 witness: 5 + 127/128 at maxDenominator 64 has been rendered as 6"
C15_Witness ==
    /\ pc = "done"
    /\ value = 5 * Unit + (Unit - Unit \div 128)
    /\ maxDenominator = 64
    /\ Len(trail) = 6
    /\ result.numerator = 1
    /\ result.denominator = 1
    /\ text = "6\""

\* the distance from f to the nearest multiple of 1/dd
NearestError(f, dd) ==
    LET r == f % (Unit \div dd)
    IN  IF 2 * r <= Unit \div dd THEN r ELSE Unit \div dd - r

C17_AcceptedReduced ==
    /\ \A i \in 1..Len(trail) :
           trail[i].accepted =>
               \/ (trail[i].n % 2 = 1 /\ trail[i].n < trail[i].d)
               \/ (trail[i].n = 0 /\ trail[i].d = 2)
    /\ Searched =>
           /\ (bestNumerator = 0 /\ bestDenominator = 2)
                  => (result.numerator = 0 /\ result.denominator = 1)
           /\ ~ (bestNumerator = 0 /\ bestDenominator = 2)
                  => (/\ result.numerator = bestNumerator
                      /\ result.denominator = bestDenominator)
           /\ (result.numerator = 1 /\ result.denominator = 1)
                  => (/\ bestDenominator = 1
                      /\ \A i \in 1..Len(trail) : ~ trail[i].accepted)

\* C17 witness: a search has run past an even candidate (2/4, then 4/8)
\* without accepting it, and has returned the 1/2 it had accepted
C17_Witness ==
    /\ Searched
    /\ Len(trail) >= 3
    /\ trail[1].accepted
    /\ trail[2].n = 2
    /\ ~ trail[2].accepted
    /\ trail[3].n = 4
    /\ ~ trail[3].accepted
    /\ result.numerator = 1
    /\ result.denominator = 2

\* the stepwise decimalToFraction and the function the App calls agree
StepwiseAgrees ==
    Returned => result = decimalToFraction(value, maxDenominator)

\* C12: in every state of the App, decimalToFraction is called only with a
\* finite value >= 0 and a precision of 16, 32 or 64; with any other input
\* no fraction is computed and "---" is shown
C12_CallerGuard ==
    LET called == fractionData(inputValue, precision) # NoResult
        finiteNonNegative == inputValue.kind = "num" /\ inputValue.v >= 0
    IN  /\ precision \in { 16, 32, 64 }
        /\ called => finiteNonNegative
        /\ ~ finiteNonNegative =>
               /\ ~ called
               /\ fractionString(inputValue, precision) = "---"
        /\ finiteNonNegative =>
               /\ fractionData(inputValue, precision)
                      = decimalToFraction(inputValue.v, precision)
               /\ fractionString(inputValue, precision) # "---"

\* C12 witness: -1 has been typed at precision 64 and "---" is shown
C12_Witness ==
    /\ lastOp = "type"
    /\ inputValue = Num(0 - Unit)
    /\ precision = 64
    /\ fractionString(inputValue, precision) = "---"

\* C13: with a valid input, ArrowUp adds and ArrowDown subtracts exactly
\* 1/precision (taken here on inputs that are multiples of 0.0001, and for
\* ArrowDown on inputs of at least one step)
C13_ExactNudge ==
    [][ LET v == parsedValue(inputValue).v
            step == Unit \div precision
        IN  (isValid(inputValue) /\ v % Digit4 = 0) =>
                /\ lastOp' = "up" => inputValue' = Num(v + step)
                /\ (lastOp' = "down" /\ v >= step)
                       => inputValue' = Num(v - step) ]_vars

\* C13, what the code does: the nudged value is rounded to four decimals, so
\* it differs from v + 1/precision or v - 1/precision by up to 0.00005
C13_RoundedNudge ==
    [][ LET v == parsedValue(inputValue).v
            step == Unit \div precision
        IN  (isValid(inputValue) /\ v % Digit4 = 0) =>
                /\ lastOp' = "up" =>
                       /\ inputValue'.kind = "num"
                       /\ inputValue'.v % Digit4 = 0
                       /\ 2 * Abs(inputValue'.v - (v + step)) <= Digit4
                       /\ precision = 16 => inputValue'.v = v + step
                /\ lastOp' = "down" =>
                       /\ inputValue'.kind = "num"
                       /\ inputValue'.v % Digit4 = 0
                       /\ 2 * Abs(inputValue'.v - Max(0, v - step)) <= Digit4 ]_vars

\* the items of a history, newest first, each saved from a valid measurement
HistoryOk(hist) ==
    /\ Len(hist) <= 10
    /\ \A i \in 1..Len(hist) :
           /\ hist[i].decimal >= 0
           /\ \E p \in { 16, 32, 64 } :
                  hist[i].fraction
                      = formatFraction(decimalToFraction(hist[i].decimal, p))
           /\ i < Len(hist) => hist[i].id > hist[i + 1].id

\* one step of the App, as C14 has the history change
HistoryStep ==
    LET valid == inputValue.kind = "num" /\ inputValue.v >= 0
    IN  /\ (lastOp' \in { "save", "enter" } /\ valid) =>
               /\ history'[1].decimal = inputValue.v
               /\ history'[1].fraction
                      = formatFraction(decimalToFraction(inputValue.v, precision))
               /\ Len(history')
                      = (IF Len(history) < 10 THEN Len(history) + 1 ELSE 10)
               /\ \A i \in 2..Len(history') : history'[i] = history[i - 1]
        /\ (lastOp' = "enter" /\ ~ valid) => history' = history
        /\ lastOp' = "clear" => history' = << >>
        /\ lastOp' \notin { "save", "enter", "clear" } => history' = history

\* C14: the history has at most 10 items, newest first, each with a valid
\* measurement and its formatted fraction; a save (button or Enter) puts the
\* current measurement and its fraction first and drops what is beyond 10;
\* Enter with an invalid input leaves the history as it is; clear empties it;
\* nothing else changes it
C14_History == [] HistoryOk(history) /\ [][HistoryStep]_vars

\* C14 witness: an eleventh save has dropped the oldest item
C14_Witness ==
    /\ lastOp \in { "save", "enter" }
    /\ now = 11
    /\ Len(history) = 10
    /\ history[1].id = 11
    /\ history[10].id = 2

====
